---------------------------- MODULE Spec2Model ----------------------------
(***************************************************************************)
(* Model of the freaky-fit backend:                                        *)
(*   - the subscription gate, canGenerateWorkoutPlan / canGenerateMealPlan *)
(*     (backend/dist/middlewares/subscription.middleware.js);              *)
(*   - the plan-generation pipeline, workoutPlanGenerator                  *)
(*     (backend/src/libs/workoutPlanGenerator.ts);                         *)
(*   - the admin route POST /trainers (backend/src/routes/admin.ts).       *)
(* Every handler is an async function: it runs atomically between two      *)
(* awaits, and handlers of different requests interleave at the awaits.    *)
(* One action of the model is one such atomic piece: the store operation   *)
(* that was awaited together with the synchronous code that follows it.    *)
(***************************************************************************)
EXTENDS Integers, Sequences, FiniteSets, TLC

VARIABLES
    now,      \* the clock read by new Date(), in years
    subs,     \* the subscription collection, in insertion order
    req,      \* per request slot: the gate request running in it
    started,  \* number of gate requests begun so far
    subs0,    \* history: the subscription collection at the start
    clean,    \* history: per user, no request of the user overlapped or failed
    ended,    \* history: per user and kind, requests ended while clean
    allowed,  \* history: per document, workout requests let through on it
    last,     \* history: the gate request that ended most recently
    gem,      \* workoutPlanGenerator: what gemini(prompt) does
    gpc,      \* workoutPlanGenerator: where the call stands
    plan,     \* workoutPlanGenerator: result.data.workout_plan, updated in place
    calls,    \* workoutPlanGenerator: the getExerciseVideo calls made, in order
    ret,      \* workoutPlanGenerator: what the call returned
    users,    \* the user collection, in insertion order
    uniqueIdx,\* whether the user collection has a unique index on email
    areq,     \* per request slot: the admin request running in it
    astarted, \* number of admin requests begun so far
    aserial,  \* history: no two admin requests were in flight together
    alast,    \* history: the admin request that ended most recently
    preq,     \* per request slot: the role update running in it
    pstarted, \* number of role updates begun so far
    plast     \* history: the role update that ended most recently

gateVars == <<now, subs, req, started, subs0, clean, ended, allowed, last>>
genVars == <<gem, gpc, plan, calls, ret>>
roleVars == <<preq, pstarted, plast>>
admVars == <<users, uniqueIdx, areq, astarted, aserial, alast, roleVars>>

vars == <<gateVars, genVars, admVars>>

-----------------------------------------------------------------------------
(* Bounds of the model *)

MaxRequests == 3    \* gate requests begun in one behaviour

(* Constants of the program *)

FreeLimit == 2      \* plans a FREE subscription may generate
Year == 1           \* endDate.setFullYear(endDate.getFullYear() + 1)

Users == {"u1", "u2"}
NoUser == "anonymous"          \* req.user is missing
Slots == {1, 2}                \* requests that can be in flight together
Kinds == {"workout", "meal"}
NoDoc == 0
Clock == {0, Year + 1}         \* arrival times: at once, or over a year later

Range(f) == {f[i] : i \in DOMAIN f}

-----------------------------------------------------------------------------
(* The subscription store *)

Subscription(u, p, a, e, w, m) ==
    [user |-> u, plan |-> p, active |-> a, endDate |-> e,
     workoutPlansGenerated |-> w, mealPlansGenerated |-> m]

\* Subscription.create({user, plan: 'FREE', ..., active: true, 0, 0})
NewSubscription(u, e) == Subscription(u, "FREE", TRUE, e, 0, 0)

\* the filter {user, active: true, endDate: {$gte: date}}
Matches(sub, u, date) ==
    sub.user = u /\ sub.active /\ sub.endDate >= date

\* the documents findOne may answer with
Matching(u, date) == {d \in DOMAIN subs : Matches(subs[d], u, date)}

Counter(sub, k) ==
    IF k = "workout" THEN sub.workoutPlansGenerated ELSE sub.mealPlansGenerated

\* subscription.<kind>PlansGenerated += 1 on the in-memory document
Increment(sub, k) ==
    IF k = "workout"
    THEN [sub EXCEPT !.workoutPlansGenerated = @ + 1]
    ELSE [sub EXCEPT !.mealPlansGenerated = @ + 1]

\* a gate without the PREMIUM branch
IsPremiumNever(sub) == FALSE

\* subscription.plan === 'PREMIUM'
IsPremium(sub) == sub.plan = "PREMIUM"

\* the quota test with > for >=
QuotaExhaustedOffByOne(sub, k) ==
    sub.plan = "FREE" /\ Counter(sub, k) > FreeLimit

\* subscription.plan === 'FREE' && subscription.<kind>PlansGenerated >= 2
QuotaExhausted(sub, k) == sub.plan = "FREE" /\ Counter(sub, k) >= FreeLimit

\* a save that increments the stored counter in place ($inc)
SaveDocAtomic(stored, mem, k) == Increment(stored, k)

\* document.save(): the one modified path is $set to the in-memory value
SaveDoc(stored, mem, k) ==
    IF k = "workout"
    THEN [stored EXCEPT !.workoutPlansGenerated = mem.workoutPlansGenerated]
    ELSE [stored EXCEPT !.mealPlansGenerated = mem.mealPlansGenerated]

\* !req.user?._id
Authenticated(u) == u # NoUser

-----------------------------------------------------------------------------
(* Gate requests *)

IdleRequest ==
    [pc |-> "idle", user |-> NoUser, kind |-> "workout",
     doc |-> NoDoc, read |-> 0, mem |-> NewSubscription(NoUser, 0),
     endDate |-> 0, sent |-> <<>>, queried |-> FALSE, created |-> FALSE,
     persisted |-> FALSE, failed |-> FALSE, found |-> "none"]

\* what is remembered of a request that ended: what it answered (sent), the
\* document it worked on, the counter it read, what it did to the store,
\* and the stored counter of its kind as it ended
Entry(r, store) ==
    [user |-> r.user, kind |-> r.kind, sent |-> r.sent,
     found |-> r.found, read |-> r.read, queried |-> r.queried,
     created |-> r.created, persisted |-> r.persisted, failed |-> r.failed,
     counter |-> IF r.doc = NoDoc THEN 0 ELSE Counter(store[r.doc], r.kind)]

NoEntry == Entry(IdleRequest, <<>>)

Let(r) == r.kind = "workout" /\ r.doc # NoDoc /\ "next" \in Range(r.sent)

\* request s ends as r: the slot is free again
End(s, r, store) ==
    /\ req' = [req EXCEPT ![s] = IdleRequest]
    /\ last' = Entry(r, store)
    /\ allowed' = [d \in DOMAIN store |->
                     (IF d \in DOMAIN allowed THEN allowed[d] ELSE 0)
                     + (IF Let(r) /\ r.doc = d THEN 1 ELSE 0)]

\* a catch block that passes the request on
OnErrorNext == <<"next">>

\* what the catch block sends (lines 70-76 / 141-147)
OnError == <<"500">>

\* request s of user u begins while another request of u is in flight
Overlaps(s, u) == \E o \in Slots \ {s} : req[o].pc # "idle" /\ req[o].user = u

NoneEnded == [k \in Kinds |-> 0]

\* the history of the user of request r after a step of r: no longer clean
\* when the step failed or began r beside another request of the user; a
\* request that ends (pc = "done") is counted, meal requests up to one
Count(r, failed, dirty) ==
    /\ clean' = [clean EXCEPT ![r.user] = @ /\ ~failed /\ ~dirty]
    /\ ended' = [ended EXCEPT ![r.user] =
           IF ~clean'[r.user] THEN NoneEnded
           ELSE IF r.pc # "done" THEN @
           ELSE IF r.kind = "workout" THEN [@ EXCEPT !.workout = @ + 1]
           ELSE [@ EXCEPT !.meal = 1]]

\* the code once a subscription document is in hand: lines 39-48 for one
\* just created (the new-subscription branch has no PREMIUM test), lines
\* 53-67 for one that was found
Decide(s, r, sub, store, dirty) ==
    IF ~r.created /\ IsPremium(sub)
    THEN End(s, [r EXCEPT !.sent = Append(@, "next")], store)
         /\ Count([r EXCEPT !.pc = "done"], FALSE, dirty)
    ELSE IF QuotaExhausted(sub, r.kind)
    THEN End(s, [r EXCEPT !.sent = Append(@, "403")], store)
         /\ Count([r EXCEPT !.pc = "done"], FALSE, dirty)
    ELSE /\ req' = [req EXCEPT ![s] =
                [r EXCEPT !.pc = "save", !.mem = Increment(sub, r.kind)]]
         /\ allowed' = [d \in DOMAIN store |->
                          IF d \in DOMAIN allowed THEN allowed[d] ELSE 0]
         /\ Count(r, FALSE, dirty)
         /\ UNCHANGED last

\* a request takes the lowest free slot
FreeSlot(s) == req[s].pc = "idle" /\ \A o \in Slots : o < s => req[o].pc # "idle"

\* a request arrives at time t: the test of
\* req.user (lines 12-17 / 83-88), then findOne with new Date() and the
\* code that follows its answer (lines 19-28 and 52-66 / 90-99 and
\* 123-137); ok = FALSE: findOne rejects
Begin(s, u, k, ok, t) ==
    /\ FreeSlot(s)
    /\ started < MaxRequests
    /\ started' = started + 1
    /\ t >= now
    /\ now' = t
    /\ LET r == [IdleRequest EXCEPT !.user = u, !.kind = k]
           q == [r EXCEPT !.queried = TRUE]
           M == Matching(u, now')
       IN IF ~Authenticated(u)
          THEN /\ ok /\ t = now
               /\ End(s, [r EXCEPT !.sent = <<"401">>], subs)
               /\ UNCHANGED <<clean, ended>>
          ELSE /\ IF ~ok
                  THEN /\ End(s, [q EXCEPT !.sent = @ \o OnError,
                                             !.failed = TRUE], subs)
                       /\ Count(q, TRUE, Overlaps(s, u))
                  ELSE IF M = {}
                  THEN /\ req' = [req EXCEPT ![s] =
                               [q EXCEPT !.pc = "create",
                                         !.endDate = now' + Year]]
                       /\ Count(q, FALSE, Overlaps(s, u))
                       /\ UNCHANGED <<allowed, last>>
                  ELSE \E d \in M :
                          Decide(s, [q EXCEPT !.doc = d,
                                       !.found = subs[d].plan,
                                       !.read = Counter(subs[d], k)],
                                 subs[d], subs, Overlaps(s, u))
    /\ UNCHANGED <<subs, subs0, genVars, admVars>>

\* lines 29-47 / 100-118: create answers
Create(s) ==
    /\ req[s].pc = "create"
    /\ LET new == NewSubscription(req[s].user, req[s].endDate)
           store == Append(subs, new)
       IN /\ subs' = store
          /\ Decide(s, [req[s] EXCEPT !.doc = Len(store), !.created = TRUE,
                                      !.read = Counter(new, req[s].kind)],
                    new, store, FALSE)
    /\ UNCHANGED <<now, started, subs0, genVars, admVars>>

\* the new-subscription branch without its return (line 50): next(), then
\* subscription.plan of a null subscription throws into the catch block
AfterSaveNoReturn == <<"next", "500">>

\* what the handler sends once save has answered: next() alone (lines
\* 49-50 with their return, lines 68-69)
AfterSave == <<"next">>

\* lines 48-50 and 67-68 / 119-121 and 138-139: save answers
Save(s) ==
    /\ req[s].pc = "save"
    /\ LET store == [subs EXCEPT ![req[s].doc] =
                        SaveDoc(@, req[s].mem, req[s].kind)]
           r == [req[s] EXCEPT !.pc = "done", !.persisted = TRUE,
                               !.sent = @ \o AfterSave]
       IN /\ subs' = store
          /\ End(s, r, store)
          /\ Count(r, FALSE, FALSE)
    /\ UNCHANGED <<now, started, subs0, genVars, admVars>>

\* the awaited create or save rejects
StoreError(s) ==
    /\ req[s].pc \in {"create", "save"}
    /\ LET r == [req[s] EXCEPT !.pc = "done", !.sent = @ \o OnError,
                               !.failed = TRUE]
       IN /\ End(s, r, subs)
          /\ Count(r, TRUE, FALSE)
    /\ UNCHANGED <<now, subs, started, subs0, genVars, admVars>>

-----------------------------------------------------------------------------
(* The plan-generation pipeline: the values of the AI payload *)

MaxDays == 2        \* days in daily_workouts
MaxExercises == 2   \* exercises in one list

\* an exercises property: undefined, or a list
Missing == [tag |-> "missing", list |-> <<>>]
Exercises(list) == [tag |-> "present", list |-> list]

\* a section (a day, warm_up, cool_down): undefined, or an object
NoSection == [tag |-> "missing", exercises |-> Missing]
Section(e) == [tag |-> "present", exercises |-> e]

\* daily_workouts: undefined, or an object with its days in key order
NoDaily == [tag |-> "missing", days |-> <<>>]
Daily(days) == [tag |-> "present", days |-> days]

WorkoutPlan(d, w, c) == [daily_workouts |-> d, warm_up |-> w, cool_down |-> c]

\* gif_url as the AI payload carries it, and as getExerciseVideo answers
\* its i-th call, made with name nm
NoName == <<"none", 0, 0>>
Placeholder == [video |-> NoName, call |-> 0]
Video(nm, i) == [video |-> nm, call |-> i]

\* the exercises of one list: n of them, named after their place
ExerciseList(sec, d, n) ==
    [i \in 1..n |-> [name |-> <<sec, d, i>>, gif_url |-> Placeholder]]

ExercisesOf(sec, d) ==
    {Missing} \cup {Exercises(ExerciseList(sec, d, n)) : n \in 0..MaxExercises}

Sections(sec) == {NoSection} \cup {Section(e) : e \in ExercisesOf(sec, 0)}

DaySeqs(n) ==
    {f \in [1..n -> UNION {{Section(e) : e \in ExercisesOf("daily", d)} : d \in 1..n}] :
        \A d \in 1..n : f[d].exercises \in ExercisesOf("daily", d)}

Dailies == {NoDaily} \cup {Daily(f) : f \in UNION {DaySeqs(n) : n \in 0..MaxDays}}

WorkoutPlans ==
    {WorkoutPlan(d, w, c) : d \in Dailies, w \in Sections("warm_up"),
                            c \in Sections("cool_down")}

EmptyPlan == WorkoutPlan(NoDaily, NoSection, NoSection)

\* result.data: undefined; an object without the key workout_plan; an
\* object whose workout_plan is null; an object with a workout_plan object
Data(tag, key, truthy, p) ==
    [tag |-> tag, hasKey |-> key, truthy |-> truthy, workout_plan |-> p]

Payloads ==
    { Data("absent", FALSE, FALSE, EmptyPlan),
      Data("object", FALSE, FALSE, EmptyPlan),
      Data("object", TRUE, FALSE, EmptyPlan) }
    \cup {Data("object", TRUE, TRUE, p) : p \in WorkoutPlans}

\* what a rejected promise carries: an Error with a message, or another value
Thrown == { [isError |-> TRUE, message |-> "network error"],
            [isError |-> FALSE, message |-> ""] }

TypeError == [isError |-> TRUE, message |-> "TypeError"]

NoMessage == ""

\* what gemini(prompt) does: throws, or answers a GeminiResponse
Gemini(kind, th, ok, msg, err, data) ==
    [kind |-> kind, thrown |-> th, success |-> ok, message |-> msg,
     error |-> err, data |-> data]

NoThrow == [isError |-> FALSE, message |-> ""]
NoData == Data("absent", FALSE, FALSE, EmptyPlan)

GeminiOutcomes ==
    {Gemini("throws", th, FALSE, NoMessage, "", NoData) : th \in Thrown}
    \cup {Gemini("answers", NoThrow, FALSE, m, "api error", NoData) :
            m \in {NoMessage, "AI quota exceeded"}}
    \cup {Gemini("answers", NoThrow, TRUE, NoMessage, "", d) : d \in Payloads}

-----------------------------------------------------------------------------
(* The plan-generation pipeline: workoutPlanGenerator *)

\* isWorkoutPlan (lines 13-15): data && 'workout_plan' in data
isWorkoutPlan(data) == data.tag # "absent" /\ data.hasKey

\* line 32: !result.data || !isWorkoutPlan(result.data) || !result.data.workout_plan
Invalid(data) == data.tag = "absent" \/ ~isWorkoutPlan(data) \/ ~data.truthy

\* the steps of one for-of over section.exercises: reading .exercises of an
\* undefined section throws, iterating an undefined list throws
Steps(sec, d, s) ==
    IF s.tag = "missing" \/ s.exercises.tag = "missing"
    THEN << [op |-> "throw", sec |-> sec, day |-> d, idx |-> 0] >>
    ELSE [i \in 1..Len(s.exercises.list) |->
            [op |-> "lookup", sec |-> sec, day |-> d, idx |-> i]]

RECURSIVE DaySteps(_, _)
DaySteps(days, d) ==
    IF d > Len(days) THEN <<>>
    ELSE Steps("daily", d, days[d]) \o DaySteps(days, d + 1)

\* lines 44-48: Object.keys of an undefined daily_workouts throws
DailySteps(p) ==
    IF p.daily_workouts.tag = "missing"
    THEN << [op |-> "throw", sec |-> "daily", day |-> 0, idx |-> 0] >>
    ELSE DaySteps(p.daily_workouts.days, 1)

\* the loops with cool_down ahead of warm_up
AllStepsCoolFirst(p) ==
    DailySteps(p) \o Steps("cool_down", 0, p.cool_down)
                  \o Steps("warm_up", 0, p.warm_up)

\* lines 44-58: the three loops one after the other
AllSteps(p) ==
    DailySteps(p) \o Steps("warm_up", 0, p.warm_up)
                  \o Steps("cool_down", 0, p.cool_down)

\* the exercise a step works on
ExerciseAt(p, st) ==
    IF st.sec = "daily" THEN p.daily_workouts.days[st.day].exercises.list[st.idx]
    ELSE IF st.sec = "warm_up" THEN p.warm_up.exercises.list[st.idx]
    ELSE p.cool_down.exercises.list[st.idx]

\* exercise.gif_url = url (lines 46, 52, 57)
SetGif(p, st, url) ==
    IF st.sec = "daily"
    THEN [p EXCEPT !.daily_workouts.days[st.day].exercises.list[st.idx].gif_url = url]
    ELSE IF st.sec = "warm_up"
    THEN [p EXCEPT !.warm_up.exercises.list[st.idx].gif_url = url]
    ELSE [p EXCEPT !.cool_down.exercises.list[st.idx].gif_url = url]

Returned(ok, msg, err, hasData, p) ==
    [tag |-> "value", success |-> ok, message |-> msg, error |-> err,
     hasData |-> hasData, data |-> p]

NoReturn ==
    [tag |-> "none", success |-> FALSE, message |-> "", error |-> "",
     hasData |-> FALSE, data |-> EmptyPlan]

\* the failure message without its default
FailureMessageRaw(m) == m

\* line 26: result.message || "Failed to generate workout plan"
FailureMessage(m) ==
    IF m = NoMessage THEN "Failed to generate workout plan" ELSE m

\* lines 24-28
Failure(g) == Returned(FALSE, FailureMessage(g.message), g.error, FALSE, EmptyPlan)

\* lines 33-37
InvalidData ==
    Returned(FALSE, "Invalid workout plan data received",
             "Missing workout plan data", FALSE, EmptyPlan)

\* lines 65-72: the catch block
Caught(th) ==
    Returned(FALSE, "Failed to generate workout plan",
             IF th.isError THEN th.message ELSE "Unknown error occurred",
             FALSE, EmptyPlan)

\* lines 60-64
Success(p) == Returned(TRUE, "Workout plan generated successfully", "", TRUE, p)

\* the loops go on after n calls were answered, up to the next await
Continue(p, n) ==
    LET all == AllSteps(p) IN
    IF n = Len(all)
    THEN gpc' = "returned" /\ ret' = Success(p)
    ELSE IF all[n + 1].op = "throw"
    THEN gpc' = "returned" /\ ret' = Caught(TypeError)
    ELSE gpc' = "lookup" /\ ret' = ret

\* lines 19-41: gemini(prompt) ends, the result is tested, the loops begin
GeminiEnds ==
    /\ gpc = "gemini"
    /\ calls' = calls
    /\ IF gem.kind = "throws"
       THEN gpc' = "returned" /\ ret' = Caught(gem.thrown) /\ plan' = plan
       ELSE IF ~gem.success
       THEN gpc' = "returned" /\ ret' = Failure(gem) /\ plan' = plan
       ELSE IF Invalid(gem.data)
       THEN gpc' = "returned" /\ ret' = InvalidData /\ plan' = plan
       ELSE /\ plan' = gem.data.workout_plan
            /\ Continue(plan', 0)
    /\ UNCHANGED <<gem, gateVars, admVars>>

\* getExerciseVideo(exercise.name) answers: lines 46, 52, 57
VideoFound ==
    /\ gpc = "lookup"
    /\ LET n == Len(calls) + 1
           st == AllSteps(plan)[n]
           nm == ExerciseAt(plan, st).name
       IN /\ calls' = Append(calls, [name |-> nm, url |-> Video(nm, n), threw |-> FALSE])
          /\ plan' = SetGif(plan, st, Video(nm, n))
          /\ Continue(plan', n)
    /\ UNCHANGED <<gem, gateVars, admVars>>

\* getExerciseVideo(exercise.name) throws: into the catch block
VideoThrows(th) ==
    /\ gpc = "lookup"
    /\ LET n == Len(calls) + 1
           st == AllSteps(plan)[n]
           nm == ExerciseAt(plan, st).name
       IN calls' = Append(calls, [name |-> nm, url |-> Placeholder, threw |-> TRUE])
    /\ gpc' = "returned"
    /\ ret' = Caught(th)
    /\ UNCHANGED <<gem, plan, gateVars, admVars>>

GenInit ==
    /\ gem \in GeminiOutcomes
    /\ gpc = "gemini"
    /\ plan = EmptyPlan
    /\ calls = <<>>
    /\ ret = NoReturn

\* no call of workoutPlanGenerator, for the behaviours of the other components
GenIdle ==
    /\ gem = Gemini("throws", NoThrow, FALSE, NoMessage, "", NoData)
    /\ gpc = "off"
    /\ plan = EmptyPlan
    /\ calls = <<>>
    /\ ret = NoReturn

-----------------------------------------------------------------------------
(* The admin routes: PATCH /users/:userId/role (routes/admin.ts) *)

MaxRoleRequests == 3    \* role updates begun in one behaviour

\* line 11: z.enum(['ADMIN', 'TRAINER', 'USER'])
Roles == {"ADMIN", "TRAINER", "USER"}

NoRole == "undefined"          \* the body has no role
\* req.body.role: a role of the enum, another string, or none
Bodies == Roles \cup {"admin", "OWNER", NoRole}

NoId == 0                      \* a userId no stored user has
RoleSlots == {1, 2}

\* a schema that lets every body through
ParsesAny(role) == TRUE

\* lines 10-12, 142: updateUserRoleSchema.parse(req.body) does not throw
Parses(role) == role \in Roles

\* the role of the stored user with this id, when there is one
RoleOf(store, id) == IF id \in DOMAIN store THEN store[id].role ELSE NoRole

IdleRole ==
    [pc |-> "idle", id |-> NoId, role |-> NoRole, status |-> 0,
     queried |-> FALSE, wrote |-> FALSE, failed |-> FALSE,
     before |-> NoRole, after |-> NoRole]

NoRoleEntry == [IdleRole EXCEPT !.pc = "done"]

FreeRoleSlot(s) ==
    preq[s].pc = "idle" /\ \A o \in RoleSlots : o < s => preq[o].pc # "idle"

\* request s ends as r; after: the target's stored role as the request ends
RoleEnd(s, r, store) ==
    /\ preq' = [preq EXCEPT ![s] = IdleRole]
    /\ plast' = [r EXCEPT !.pc = "done", !.after = RoleOf(store, r.id)]

\* a request arrives for user id with role in its body: the schema is
\* applied (line 142; a ZodError is answered 400, lines 159-161), then
\* findById and the test of its answer (lines 144-150); ok = FALSE:
\* findById rejects (line 162)
PatchRole(s, id, role, ok) ==
    /\ FreeRoleSlot(s)
    /\ pstarted < MaxRoleRequests
    /\ pstarted' = pstarted + 1
    /\ LET r == [IdleRole EXCEPT !.id = id, !.role = role,
                                 !.before = RoleOf(users, id)]
           q == [r EXCEPT !.queried = TRUE]
       IN IF ~Parses(role)
          THEN ok /\ RoleEnd(s, [r EXCEPT !.status = 400], users)
          ELSE IF ~ok
          THEN RoleEnd(s, [q EXCEPT !.status = 500, !.failed = TRUE], users)
          ELSE IF id \notin DOMAIN users
          THEN RoleEnd(s, [q EXCEPT !.status = 404], users)
          ELSE /\ preq' = [preq EXCEPT ![s] = [q EXCEPT !.pc = "save"]]
               /\ plast' = plast
    /\ UNCHANGED <<users, uniqueIdx, areq, astarted, aserial, alast,
                   gateVars, genVars>>

\* user.save() answers: the role is written, the user is sent back
\* (lines 150-157)
SaveRole(s) ==
    /\ preq[s].pc = "save"
    /\ LET store == [users EXCEPT ![preq[s].id].role = preq[s].role]
       IN /\ users' = store
          /\ RoleEnd(s, [preq[s] EXCEPT !.status = 200, !.wrote = TRUE], store)
    /\ UNCHANGED <<pstarted, uniqueIdx, areq, astarted, aserial, alast,
                   gateVars, genVars>>

\* user.save() rejects: the catch block (line 162)
RoleError(s) ==
    /\ preq[s].pc = "save"
    /\ RoleEnd(s, [preq[s] EXCEPT !.status = 500, !.failed = TRUE], users)
    /\ UNCHANGED <<users, pstarted, uniqueIdx, areq, astarted, aserial, alast,
                   gateVars, genVars>>

\* no role update has begun
RoleIdle ==
    /\ preq = [s \in RoleSlots |-> IdleRole]
    /\ pstarted = 0
    /\ plast = NoRoleEntry

-----------------------------------------------------------------------------
(* The admin routes: POST /trainers (routes/admin.ts) *)

MaxAdminRequests == 3   \* admin requests begun in one behaviour

Emails == {"admin@fit", "a@fit", "b@fit"}
AdminSlots == {1, 2}

User(e, r) == [email |-> e, role |-> r]

\* lines 48-57: new User({..., email, role: 'TRAINER', ...})
NewTrainer(e) == User(e, "TRAINER")

\* a lookup that never finds the email
EmailTakenNever(store, e) == FALSE

\* line 39: User.findOne({ email }) answers a user
EmailTaken(store, e) == \E i \in DOMAIN store : store[i].email = e

IdleAdmin ==
    [pc |-> "idle", email |-> "", status |-> 0, existed |-> FALSE,
     wrote |-> FALSE, failed |-> FALSE]

NoAdminEntry == [IdleAdmin EXCEPT !.pc = "done"]

FreeAdminSlot(s) ==
    areq[s].pc = "idle" /\ \A o \in AdminSlots : o < s => areq[o].pc # "idle"

\* request s ends as r
AdminEnd(s, r) ==
    /\ areq' = [areq EXCEPT ![s] = IdleAdmin]
    /\ alast' = [r EXCEPT !.pc = "done"]

\* a request arrives with email e in its body: findOne and the test of its
\* answer (lines 36-42); ok = FALSE: findOne rejects (lines 66-68)
PostTrainers(s, e, ok) ==
    /\ FreeAdminSlot(s)
    /\ astarted < MaxAdminRequests
    /\ astarted' = astarted + 1
    /\ aserial' = (aserial /\ \A o \in AdminSlots : areq[o].pc = "idle")
    /\ LET r == [IdleAdmin EXCEPT !.email = e,
                    !.existed = (\E i \in DOMAIN users : users[i].email = e)]
       IN IF ~ok
          THEN AdminEnd(s, [r EXCEPT !.status = 500, !.failed = TRUE])
          ELSE IF EmailTaken(users, e)
          THEN AdminEnd(s, [r EXCEPT !.status = 400])
          ELSE /\ areq' = [areq EXCEPT ![s] = [r EXCEPT !.pc = "hash"]]
               /\ alast' = alast
    /\ UNCHANGED <<users, uniqueIdx, roleVars, gateVars, genVars>>

\* bcrypt.hash answers and the document is built (lines 45-57)
Hashed(s) ==
    /\ areq[s].pc = "hash"
    /\ areq' = [areq EXCEPT ![s].pc = "save"]
    /\ UNCHANGED <<users, uniqueIdx, astarted, aserial, alast, roleVars,
                   gateVars, genVars>>

\* the store refuses a second document with the same email when the
\* collection has a unique index on email
InsertRefused(store, e) ==
    uniqueIdx /\ \E i \in DOMAIN store : store[i].email = e

\* trainer.save() answers (lines 59-65); under a unique index on email the
\* insert of a second document with the email is refused (lines 66-68)
SaveTrainer(s) ==
    /\ areq[s].pc = "save"
    /\ IF InsertRefused(users, areq[s].email)
       THEN /\ users' = users
            /\ AdminEnd(s, [areq[s] EXCEPT !.status = 500, !.failed = TRUE])
       ELSE /\ users' = Append(users, NewTrainer(areq[s].email))
            /\ AdminEnd(s, [areq[s] EXCEPT !.status = 201, !.wrote = TRUE])
    /\ UNCHANGED <<uniqueIdx, astarted, aserial, roleVars, gateVars, genVars>>

\* bcrypt.hash or save rejects: the catch block (lines 66-68)
AdminError(s) ==
    /\ areq[s].pc \in {"hash", "save"}
    /\ AdminEnd(s, [areq[s] EXCEPT !.status = 500, !.failed = TRUE])
    /\ UNCHANGED <<users, uniqueIdx, astarted, aserial, roleVars,
                   gateVars, genVars>>

\* the users at the start: no two share an email
InitialUsers ==
    { << User("admin@fit", "ADMIN") >>,
      << User("admin@fit", "ADMIN"), User("a@fit", "USER") >> }

AdminInit ==
    /\ users \in InitialUsers
    /\ uniqueIdx \in BOOLEAN
    /\ areq = [s \in AdminSlots |-> IdleAdmin]
    /\ astarted = 0
    /\ aserial = TRUE
    /\ alast = NoAdminEntry
    /\ RoleIdle

\* no admin request, for the behaviours of the other components
AdminIdle ==
    /\ users = << User("admin@fit", "ADMIN") >>
    /\ uniqueIdx = FALSE
    /\ areq = [s \in AdminSlots |-> IdleAdmin]
    /\ astarted = 0
    /\ aserial = TRUE
    /\ alast = NoAdminEntry
    /\ RoleIdle

-----------------------------------------------------------------------------
(* The gate: the initial store *)

\* the records of a user who upgraded: the FREE subscription, used up and
\* deactivated, and the PREMIUM one that replaced it
Upgraded(u) ==
    << Subscription(u, "FREE", FALSE, Year, FreeLimit, FreeLimit),
       Subscription(u, "PREMIUM", TRUE, 0, FreeLimit, FreeLimit) >>

GateStart(store) ==
    /\ now = 0
    /\ subs = store
    /\ req = [s \in Slots |-> IdleRequest]
    /\ started = 0
    /\ subs0 = subs
    /\ clean = [u \in Users |-> TRUE]
    /\ ended = [u \in Users |-> NoneEnded]
    /\ allowed = [d \in DOMAIN subs |-> 0]
    /\ last = NoEntry

\* u1 has no subscription record, u2 has upgraded
GateInit == GateStart(Upgraded("u2"))

\* the gate at rest, for the behaviours of the other components
GateIdle == GateStart(<<>>)

Next ==
    \/ \E s \in Slots, u \in Users \cup {NoUser}, k \in Kinds, ok \in BOOLEAN,
          t \in Clock : Begin(s, u, k, ok, t)
    \/ \E s \in Slots : Create(s)
    \/ \E s \in Slots : Save(s)
    \/ \E s \in Slots : StoreError(s)

Init == GateInit /\ GenIdle /\ AdminIdle

Spec == Init /\ [][Next]_vars

\* one call of workoutPlanGenerator
NextGen ==
    \/ GeminiEnds
    \/ VideoFound
    \/ \E th \in Thrown : VideoThrows(th)

InitGen == GateIdle /\ GenInit /\ AdminIdle

SpecGen == InitGen /\ [][NextGen]_vars

\* the admin requests
NextAdmin ==
    \/ \E s \in AdminSlots, e \in Emails, ok \in BOOLEAN : PostTrainers(s, e, ok)
    \/ \E s \in AdminSlots : Hashed(s)
    \/ \E s \in AdminSlots : SaveTrainer(s)
    \/ \E s \in AdminSlots : AdminError(s)

InitAdmin == GateIdle /\ GenIdle /\ AdminInit

SpecAdmin == InitAdmin /\ [][NextAdmin]_vars

\* req.params.userId: the id of a user stored at the start, or of none
UserIds == {NoId} \cup UNION {DOMAIN store : store \in InitialUsers}

\* the role updates
NextRole ==
    \/ \E s \in RoleSlots, id \in UserIds, role \in Bodies, ok \in BOOLEAN :
          PatchRole(s, id, role, ok)
    \/ \E s \in RoleSlots : SaveRole(s)
    \/ \E s \in RoleSlots : RoleError(s)

InitRole == GateIdle /\ GenIdle /\ AdminInit

SpecRole == InitRole /\ [][NextRole]_vars

-----------------------------------------------------------------------------
(* The subscription gate: properties *)

Fresh(u) == \A d \in DOMAIN subs0 : subs0[d].user # u

NoExpiry(u) == \A d \in DOMAIN subs : subs[d].user = u => subs[d].endDate >= now

DocsOf(u) == {d \in DOMAIN subs : subs[d].user = u}

\* last is the n-th workout request of u, u had no subscription record at
\* the start, its requests so far ran one at a time without a store
\* failure, and no subscription of u has expired
NthWorkout(u, n) ==
    /\ Fresh(u) /\ clean[u] /\ NoExpiry(u)
    /\ last.user = u /\ last.kind = "workout"
    /\ ended[u].workout = n

\* C1: for a user with no subscription record whose workout requests pass
\* the gate one at a time with no expiry in between, the first request is
\* let through with the counter at 1 (creating the one FREE subscription
\* when no meal request came before it), the second with the counter at 2,
\* and every later one is answered 403 with the counter left at 2.
C1_TwoThenRejected ==
    \A u \in Users :
        /\ NthWorkout(u, 1) =>
              /\ last.sent = <<"next">> /\ last.counter = 1
              /\ ended[u].meal = 0 => last.created
              /\ \E d \in DOMAIN subs :
                    DocsOf(u) = {d} /\ subs[d].plan = "FREE" /\ subs[d].active
        /\ NthWorkout(u, 2) =>
              last.sent = <<"next">> /\ last.counter = 2 /\ ~last.created
        /\ \A n \in 3..MaxRequests :
              NthWorkout(u, n) =>
                 /\ last.sent = <<"403">> /\ last.counter = FreeLimit
                 /\ ~last.persisted /\ ~last.created

C1_ThirdRejected ==
    \E u \in Users : NthWorkout(u, 3) /\ last.sent = <<"403">>

PremiumUser(u) ==
    \E d \in DOMAIN subs :
        /\ subs[d].user = u /\ subs[d].plan = "PREMIUM"
        /\ subs[d].active /\ subs[d].endDate >= now

\* C2: a request of a user whose active, unexpired subscription is PREMIUM
\* is let through unless findOne fails, is never answered 403 and writes
\* nothing; a PREMIUM record is never changed by the gate.
C2_PremiumNeverGated ==
    /\ \A u \in Users :
          PremiumUser(u) /\ last.user = u /\ ~last.failed =>
             /\ last.sent = <<"next">> /\ last.found = "PREMIUM"
             /\ ~last.persisted /\ ~last.created
    /\ \A u \in Users : PremiumUser(u) /\ last.user = u => last.sent # <<"403">>
    /\ \A d \in DOMAIN subs0 :
          subs0[d].plan = "PREMIUM" => subs[d] = subs0[d]

C2_PremiumLetThrough ==
    \E u \in Users :
        /\ PremiumUser(u) /\ last.user = u /\ last.sent = <<"next">>
        /\ last.read >= FreeLimit

\* C3: every user has at most one subscription record with active = true
\* and endDate >= now.
C3_AtMostOneActive ==
    \A u \in Users : Cardinality(Matching(u, now)) <= 1

\* C4: a request that saves was let through on a counter it read below the
\* limit and leaves its own read value + 1 in the store, whatever other
\* requests wrote in between; so the stored counters never pass the limit
\* while (the witness) more than two workout requests are let through on
\* one FREE subscription.
C4_WritesOwnReadPlusOne ==
    /\ last.persisted =>
          /\ last.read < FreeLimit
          /\ last.counter = last.read + 1
          /\ last.sent = <<"next">>
    /\ \A d \in DOMAIN subs, k \in Kinds : Counter(subs[d], k) <= FreeLimit

C4_MoreThanTwoAllowed ==
    \E d \in DOMAIN subs :
        /\ subs[d].plan = "FREE"
        /\ allowed[d] > FreeLimit
        /\ subs[d].workoutPlansGenerated <= FreeLimit

C6_OneOutcome ==
    /\ last # NoEntry =>
          /\ Len(last.sent) = 1
          /\ last.sent[1] \in {"401", "403", "500", "next"}
    /\ last.sent = <<"401">> <=> (last # NoEntry /\ last.user = NoUser)
    /\ last.sent = <<"401">> =>
          ~last.queried /\ ~last.created /\ ~last.persisted
    /\ last.sent = <<"403">> =>
          /\ ~last.persisted /\ last.counter = last.read
          /\ last.read >= FreeLimit
    /\ \A d \in DOMAIN subs : subs[d].user \in Users

C6_Rejected403 ==
    last.sent = <<"403">> /\ last.kind = "meal" /\ last.found = "FREE"

-----------------------------------------------------------------------------
(* The plan-generation pipeline: properties *)

\* the shape the payload is expected to have: a workout_plan object with
\* daily_workouts, warm_up and cool_down, each day and each of the two
\* sections holding an exercises list
WellShaped(data) ==
    /\ data.tag = "object" /\ data.hasKey /\ data.truthy
    /\ LET p == data.workout_plan IN
       /\ p.daily_workouts.tag = "present"
       /\ \A d \in DOMAIN p.daily_workouts.days :
             p.daily_workouts.days[d].exercises.tag = "present"
       /\ p.warm_up.tag = "present" /\ p.warm_up.exercises.tag = "present"
       /\ p.cool_down.tag = "present" /\ p.cool_down.exercises.tag = "present"

\* C7: when the AI client reports success with a payload that has not the
\* expected shape, the call returns success:false with the message
\* "Invalid workout plan data received" and no data.
C7_MalformedPayloadInvalid ==
    gpc = "returned" /\ gem.kind = "answers" /\ gem.success
                     /\ ~WellShaped(gem.data) =>
        /\ ~ret.success /\ ~ret.hasData
        /\ ret.message = "Invalid workout plan data received"

RECURSIVE DayListing(_, _)
DayListing(days, d) ==
    IF d > Len(days) THEN <<>>
    ELSE days[d].exercises.list \o DayListing(days, d + 1)

\* the exercises of a well-shaped plan: those of the days in key order,
\* then those of warm_up, then those of cool_down
Listing(p) ==
    DayListing(p.daily_workouts.days, 1) \o p.warm_up.exercises.list
                                        \o p.cool_down.exercises.list

\* C8: when the call returns success:true, one lookup was made per
\* exercise, in the order daily_workouts, warm_up, cool_down, each with the
\* name of its exercise, and every exercise of the returned plan carries
\* the value its lookup answered, none the placeholder of the payload.
C8_EveryExerciseEnriched ==
    gpc = "returned" /\ ret.success =>
        LET before == Listing(gem.data.workout_plan)
            after == Listing(ret.data)
        IN /\ ret.hasData /\ WellShaped(gem.data)
           /\ Len(calls) = Len(before) /\ Len(after) = Len(before)
           /\ \A i \in DOMAIN before :
                 /\ ~calls[i].threw
                 /\ calls[i].name = before[i].name
                 /\ after[i].name = before[i].name
                 /\ after[i].gif_url = calls[i].url
                 /\ after[i].gif_url # Placeholder

C8_AllSectionsEnriched ==
    /\ gpc = "returned" /\ ret.success
    /\ Len(ret.data.daily_workouts.days) = 2
    /\ \A d \in 1..2 : Len(ret.data.daily_workouts.days[d].exercises.list) >= 1
    /\ Len(ret.data.warm_up.exercises.list) >= 1
    /\ Len(ret.data.cool_down.exercises.list) >= 1

\* C9: the call always ends by returning a value. When the AI client
\* reports failure the value is success:false with the client's message
\* (the default when it gave none) and the client's error, and no lookup
\* was made; when the AI client or a lookup throws, the value is
\* success:false with "Failed to generate workout plan", and the lookup
\* that threw is the last one made. No failure carries data.
C9_FailuresReturned ==
    /\ gpc = "returned" <=> ret.tag = "value"
    /\ gpc = "returned" =>
          /\ gem.kind = "answers" /\ ~gem.success =>
                /\ ~ret.success /\ calls = <<>>
                /\ ret.message = (IF gem.message = NoMessage
                                   THEN "Failed to generate workout plan"
                                   ELSE gem.message)
                /\ ret.error = gem.error
          /\ gem.kind = "throws" =>
                /\ ~ret.success /\ calls = <<>>
                /\ ret.message = "Failed to generate workout plan"
          /\ \A i \in DOMAIN calls :
                calls[i].threw =>
                   /\ i = Len(calls)
                   /\ ~ret.success
                   /\ ret.message = "Failed to generate workout plan"
          /\ ~ret.success => ~ret.hasData

C9_LookupThrewMidway ==
    /\ gpc = "returned" /\ Len(calls) >= 2 /\ calls[Len(calls)].threw
    /\ Len(Listing(gem.data.workout_plan)) > Len(calls)

-----------------------------------------------------------------------------
(* The admin routes: properties *)

UniqueEmails ==
    \A i, j \in DOMAIN users : users[i].email = users[j].email => i = j

-----------------------------------------------------------------------------
(* The admin routes: role updates, properties *)

ValidRoles == \A i \in DOMAIN users : users[i].role \in Roles

\* C11: PATCH /users/:userId/role with a role outside ADMIN, TRAINER, USER,
\* or with no role, is answered 400 before any store read or write, so the
\* target's stored role is as it was when the request arrived; 400 is
\* answered to no other request; a request that wrote carried a role of
\* the three and left it as the target's role; so the stored role of every
\* user is always one of the three.
C11_InvalidRoleRejected ==
    /\ plast # NoRoleEntry /\ plast.role \notin Roles => plast.status = 400
    /\ plast.status = 400 =>
          /\ plast.role \notin Roles
          /\ ~plast.queried /\ ~plast.wrote
          /\ plast.after = plast.before
    /\ plast.wrote =>
          plast.status = 200 /\ plast.role \in Roles /\ plast.after = plast.role
    /\ \A s \in RoleSlots : preq[s].pc # "idle" => preq[s].role \in Roles
    /\ ValidRoles

C11_RejectedAfterUpdate ==
    /\ plast.status = 400 /\ plast.role = "admin"
    /\ plast.id \in DOMAIN users
    /\ plast.before = "TRAINER"

=============================================================================
